---- MODULE Spec2Model ----
(***************************************************************************)
(* PacoConfigFilter: the filtering pipeline of src/main.py (the "main"     *)
(* variant: strict interface pruning, IRB-only usage deduction) and of     *)
(* src/nokia/paco/config_filter.py (the "config_filter" variant:           *)
(* consolidating interface pruning, every reference in use).               *)
(*                                                                         *)
(* Python strings are sequences of one-character strings, so that the      *)
(* substring test, split("."), int() and the f-string of config_rep are    *)
(* computed as the interpreter computes them.                              *)
(***************************************************************************)
EXTENDS Integers, Sequences, FiniteSets, TLC

VARIABLES
    variant,  \* the module that runs: "main" or "config_filter"
    input,    \* the document in the input file (NoFile: the path names no file)
    o,        \* process's parameter o: the destination, or None
    pc,       \* the call of process that comes next, or "done", "error", "exit"
    data,     \* process's local `data`
    irbs,     \* the in-use list returned by the usage deduction
    err,      \* the exception or exit that ended the run, "none" otherwise
    out       \* standard output and the content of the destination file

vars == <<variant, input, o, pc, data, irbs, err, out>>

----------------------------------------------------------------------------
(* Bounds of the model *)

MaxNis == 2
MaxIfs == 2
MaxBfd == 1

----------------------------------------------------------------------------
(* String literals *)

S_default == <<"d","e","f","a","u","l","t">>
S_infrastructure == <<"i","n","f","r","a","s","t","r","u","c","t","u","r","e">>
S_provisioning == <<"p","r","o","v","i","s","i","o","n","i","n","g">>
S_mgmt == <<"m","g","m","t">>
S_irb == <<"i","r","b">>
S_ethernet == <<"e","t","h","e","r","n","e","t">>
S_irb0 == <<"i","r","b","0">>
S_eth1 == S_ethernet \o <<"-","1","/","1">>
S_dot == <<".">>

Variants == {"main", "config_filter"}

\* keep_nis of each module
keep_nis(v) ==
    IF v = "main" THEN <<S_provisioning, S_infrastructure, S_default>>
    ELSE <<S_infrastructure, S_default>>

----------------------------------------------------------------------------
(* Python string primitives *)

Range(s) == {s[i] : i \in DOMAIN s}

\* sub in s
Contains(s, sub) ==
    \E i \in 0..(Len(s) - Len(sub)) : SubSeq(s, i + 1, i + Len(sub)) = sub

\* s.split(sep) for a one-character separator
RECURSIVE SplitFrom(_, _, _, _)
SplitFrom(s, sep, i, cur) ==
    IF i > Len(s) THEN <<cur>>
    ELSE IF s[i] = sep THEN <<cur>> \o SplitFrom(s, sep, i + 1, <<>>)
    ELSE SplitFrom(s, sep, i + 1, Append(cur, s[i]))

Split(s, sep) == SplitFrom(s, sep, 1, <<>>)

Digits == <<"0","1","2","3","4","5","6","7","8","9">>

DigitVal(c) == (CHOOSE k \in DOMAIN Digits : Digits[k] = c) - 1

IsDigits(t) == Len(t) > 0 /\ \A i \in DOMAIN t : t[i] \in Range(Digits)

\* the texts int() accepts: an optional sign, then decimal digits
\* (surrounding whitespace and "_" separators are outside the modelled alphabet)
IsIntLiteral(t) ==
    \/ IsDigits(t)
    \/ Len(t) > 1 /\ t[1] \in {"+", "-"} /\ IsDigits(Tail(t))

RECURSIVE DigitsValue(_)
DigitsValue(t) ==
    IF t = <<>> THEN 0
    ELSE 10 * DigitsValue(SubSeq(t, 1, Len(t) - 1)) + DigitVal(t[Len(t)])

\* int(t)
IntValue(t) ==
    IF t[1] = "-" THEN 0 - DigitsValue(Tail(t))
    ELSE IF t[1] = "+" THEN DigitsValue(Tail(t))
    ELSE DigitsValue(t)

RECURSIVE NatToStr(_)
NatToStr(n) ==
    IF n < 10 THEN <<Digits[n + 1]>>
    ELSE NatToStr(n \div 10) \o <<Digits[(n % 10) + 1]>>

\* str(n) as the f-string formats an int
IntToStr(n) == IF n < 0 THEN <<"-">> \o NatToStr(0 - n) ELSE NatToStr(n)

----------------------------------------------------------------------------
(* class Interface *)

Interface(interface_name, unit) == [interface_name |-> interface_name, unit |-> unit]

IndexError == "IndexError: list index out of range"
IntValueError == "ValueError: invalid literal for int() with base 10"

\* the exception new_interface_from_string raises on s, or "none"
ParseError(s) ==
    LET parts == Split(s, ".")
    IN  IF Len(parts) < 2 THEN IndexError
        ELSE IF ~IsIntLiteral(parts[2]) THEN IntValueError
        ELSE "none"

new_interface_from_string(s) ==
    LET parts == Split(s, ".")
    IN  Interface(parts[1], IntValue(parts[2]))

config_rep(ifc) == ifc.interface_name \o S_dot \o IntToStr(ifc.unit)

----------------------------------------------------------------------------
(* The document *)

MakeDoc(nis, ifs, bfds, sys) ==
    ("network-instance" :> nis) @@
    [interface |-> ifs,
     bfd |-> [subinterface |-> bfds, description |-> "bfd-admin"],
     system |-> sys]

\* the value of `data` before load_data has returned
NoData == MakeDoc(<<>>, <<>>, <<>>, "unloaded")

Ref(s) == [name |-> s]
Ni(name, refs) == [name |-> name, interface |-> refs]
SubIf(index, description) == [index |-> index, description |-> description]
If(name, description, subs) ==
    [name |-> name, description |-> description, subinterface |-> subs]
Bfd(id) == [id |-> id, description |-> "bfd-binding"]

R_irb0_1 == S_irb0 \o <<".","1">>
R_irb0_01 == S_irb0 \o <<".","0","1">>
R_irb0_2 == S_irb0 \o <<".","2">>
R_irb0_x == S_irb0 \o <<".","x">>
R_irb0_1_2 == S_irb0 \o <<".","1",".","2">>
R_eth1_0 == S_eth1 \o <<".","0">>

\* network-instances the input is drawn from
NiSet ==
    { Ni(S_infrastructure \o <<"-">> \o S_default, <<Ref(R_irb0_1), Ref(R_irb0_2)>>),
      Ni(S_default, <<Ref(R_irb0_01), Ref(R_eth1_0)>>),
      Ni(S_provisioning, <<Ref(R_irb0_1_2)>>),
      Ni(S_infrastructure, <<Ref(S_irb0), Ref(R_irb0_x)>>) }

\* top-level interface records the input is drawn from
IfSet ==
    { If(S_irb0, "first", <<SubIf(1, "a"), SubIf(2, "b")>>),
      If(S_eth1, "port", <<SubIf(0, "c"), SubIf(1, "d")>>),
      If(S_eth1, "spare", <<SubIf(0, "e")>>) }

\* BFD bindings the input is drawn from
BfdSet == { Bfd(R_irb0_1), Bfd(R_irb0_2) }

SystemSet == {"sys-a"}

SeqsUpTo(S, n) == UNION {[1..k -> S] : k \in 0..n}

Docs ==
    { MakeDoc(nis, ifs, bfds, sys) :
        nis \in SeqsUpTo(NiSet, MaxNis), ifs \in SeqsUpTo(IfSet, MaxIfs),
        bfds \in SeqsUpTo(BfdSet, MaxBfd), sys \in SystemSet }

\* the input path names no regular file
NoFile == MakeDoc(<<>>, <<>>, <<>>, "no-such-file")

----------------------------------------------------------------------------
(* drop_nis *)

\* drop_nis as it would be if it bound `data` to a new document of the keys
\* it knows instead of updating the one it was given
drop_nis_rebuilt(v, d) ==
    ("network-instance" :>
        SelectSeq(d["network-instance"],
                  LAMBDA e : \E j \in DOMAIN keep_nis(v) : Contains(e.name, keep_nis(v)[j])))
    @@ [interface |-> d.interface, bfd |-> d.bfd]

RECURSIVE drop_nis_matches(_, _, _, _)
drop_nis_matches(entry, keep, j, result) ==
    IF j > Len(keep) THEN result
    ELSE drop_nis_matches(entry, keep, j + 1,
            IF Contains(entry.name, keep[j]) THEN Append(result, entry) ELSE result)

RECURSIVE drop_nis_entries(_, _, _, _)
drop_nis_entries(nis, keep, i, result) ==
    IF i > Len(nis) THEN result
    ELSE drop_nis_entries(nis, keep, i + 1, drop_nis_matches(nis[i], keep, 1, result))

drop_nis(v, d) ==
    [d EXCEPT !["network-instance"] = drop_nis_entries(@, keep_nis(v), 1, <<>>)]

----------------------------------------------------------------------------
(* deduce_base_irb_interfaces (main) / deduce_in_use_interfaces (config_filter) *)

\* interfs: the set of the retained network-instances' interface names
interfs(d) ==
    LET nis == d["network-instance"]
    IN  UNION {{nis[i].interface[j].name : j \in DOMAIN nis[i].interface} :
                    i \in DOMAIN nis}

\* the orders in which `for x in interfs` may visit the set
RECURSIVE Orders(_)
Orders(S) ==
    IF S = {} THEN {<<>>}
    ELSE UNION {{<<x>> \o rest : rest \in Orders(S \ {x})} : x \in S}

\* the strings the loop parses: main.py parses those holding "irb"
Parsed(v, S) == {x \in S : v = "config_filter" \/ Contains(x, S_irb)}

\* the strings on which new_interface_from_string raises
Unparsable(v, S) == {x \in Parsed(v, S) : ParseError(x) # "none"}

\* result, for the order ord in which the parsed strings are visited
deduce_in_use_interfaces(ord) ==
    [i \in DOMAIN ord |-> new_interface_from_string(ord[i])]

----------------------------------------------------------------------------
(* remove_bfd_interfaces *)

RECURSIVE remove_bfd_irbs(_, _, _, _)
remove_bfd_irbs(entry, in_use, k, match) ==
    IF k > Len(in_use) THEN match
    ELSE remove_bfd_irbs(entry, in_use, k + 1,
            IF entry.id = config_rep(in_use[k]) THEN Append(match, entry) ELSE match)

RECURSIVE remove_bfd_entries(_, _, _, _)
remove_bfd_entries(subs, in_use, i, match) ==
    IF i > Len(subs) THEN match
    ELSE remove_bfd_entries(subs, in_use, i + 1, remove_bfd_irbs(subs[i], in_use, 1, match))

remove_bfd_interfaces(in_use, d) ==
    [d EXCEPT !.bfd.subinterface = remove_bfd_entries(@, in_use, 1, <<>>)]

----------------------------------------------------------------------------
(* remove_interfaces *)

\* interf = copy.deepcopy(entry); interf['subinterface'] = []
Blank(entry) == [entry EXCEPT !.subinterface = <<>>]

\* the subinterfaces of entry the inner loop appends for one in-use reference
UnitSubifs(entry, unit) == SelectSeq(entry.subinterface, LAMBDA s : s.index = unit)

\* strict_entries without the interf['subinterface'] = [] reset: the copy keeps
\* every subinterface of the entry
RECURSIVE strict_entries_whole(_, _, _, _)
strict_entries_whole(ifs, irb, i, result) ==
    IF i > Len(ifs) THEN result
    ELSE strict_entries_whole(ifs, irb, i + 1,
            IF ifs[i].name = irb.interface_name THEN Append(result, ifs[i]) ELSE result)

\* strict_entries that skips an entry whose name already has a record in result
RECURSIVE strict_entries_once(_, _, _, _)
strict_entries_once(ifs, irb, i, result) ==
    IF i > Len(ifs) THEN result
    ELSE strict_entries_once(ifs, irb, i + 1,
            IF /\ ifs[i].name = irb.interface_name
               /\ \A j \in DOMAIN result : result[j].name # ifs[i].name
            THEN Append(result, [ifs[i] EXCEPT !.subinterface =
                                    SelectSeq(@, LAMBDA s : s.index = irb.unit)])
            ELSE result)

\* main.py: one record per in-use reference and same-name entry
RECURSIVE strict_entries(_, _, _, _)
strict_entries(ifs, irb, i, result) ==
    IF i > Len(ifs) THEN result
    ELSE strict_entries(ifs, irb, i + 1,
            IF ifs[i].name = irb.interface_name
            THEN Append(result, [ifs[i] EXCEPT !.subinterface = UnitSubifs(ifs[i], irb.unit)])
            ELSE result)

RECURSIVE strict_irbs(_, _, _, _)
strict_irbs(in_use, ifs, k, result) ==
    IF k > Len(in_use) THEN result
    ELSE strict_irbs(in_use, ifs, k + 1, strict_entries(ifs, in_use[k], 1, result))

remove_interfaces_strict(in_use, d) ==
    [d EXCEPT !.interface = strict_irbs(in_use, @, 1, <<>>)]

\* config_filter.py: `result` is a dict keyed by name, held here as the sequence
\* of its values in insertion order; `interf` is the local variable, held as the
\* key of the record it refers to (it always refers to a record of `result`
\* once bound: every assignment to it is followed by result[name] = interf)
Unbound == <<>>

DictHas(result, key) == \E i \in DOMAIN result : result[i].name = key

\* result[key] = rec: an existing key keeps its position
DictSet(result, key, rec) ==
    IF DictHas(result, key)
    THEN [i \in DOMAIN result |-> IF result[i].name = key THEN rec ELSE result[i]]
    ELSE Append(result, rec)

\* interf['subinterface'].append(subif) for each subif of subs
AppendSubifs(result, key, subs) ==
    [i \in DOMAIN result |->
        IF result[i].name = key
        THEN [result[i] EXCEPT !.subinterface = @ \o subs]
        ELSE result[i]]

RECURSIVE consolidate_interfaces(_, _, _, _)
consolidate_interfaces(entry, in_use, k, st) ==
    IF k > Len(in_use) THEN st
    ELSE IF entry.name # in_use[k].interface_name
    THEN consolidate_interfaces(entry, in_use, k + 1, st)
    ELSE LET st1 == IF ~DictHas(st.result, entry.name)
                    THEN [result |-> DictSet(st.result, entry.name, Blank(entry)),
                          interf |-> entry.name]
                    ELSE st
         IN  consolidate_interfaces(entry, in_use, k + 1,
                [st1 EXCEPT !.result =
                    AppendSubifs(@, st1.interf, UnitSubifs(entry, in_use[k].unit))])

RECURSIVE consolidate_entries(_, _, _, _)
consolidate_entries(ifs, in_use, i, st) ==
    IF i > Len(ifs) THEN st
    ELSE LET st0 == IF Contains(ifs[i].name, S_ethernet)
                    THEN [result |-> DictSet(st.result, ifs[i].name, Blank(ifs[i])),
                          interf |-> ifs[i].name]
                    ELSE st
         IN  consolidate_entries(ifs, in_use, i + 1,
                consolidate_interfaces(ifs[i], in_use, 1, st0))

remove_interfaces_consolidating(in_use, d) ==
    [d EXCEPT !.interface =
        consolidate_entries(@, in_use, 1, [result |-> <<>>, interf |-> Unbound]).result]

remove_interfaces(v, in_use, d) ==
    IF v = "main" THEN remove_interfaces_strict(in_use, d)
    ELSE remove_interfaces_consolidating(in_use, d)

----------------------------------------------------------------------------
(* finish *)

None == "None"
OutFile == "out.json"
Destinations == {None, OutFile}

\* the mode finish passes to open()
open_mode(v) == IF v = "main" THEN <<"r", "w">> ELSE <<"w", "+">>

ModeValueError == "ValueError: must have exactly one of create/read/write/append mode"

\* open() raises ValueError unless the mode holds exactly one of r, w, x, a
ModeAccepted(mode) ==
    Cardinality({i \in DOMAIN mode : mode[i] \in {"r", "w", "x", "a"}}) = 1

\* json.dump(data, ..., indent="  ") / json.dumps(data, indent="  ")
Dump(d) == [indent |-> "  ", doc |-> d]

\* what the destination held before the run
OldContent == <<[indent |-> "", doc |-> MakeDoc(<<>>, <<>>, <<>>, "previous")]>>

\* the file after open(o, mode), one write and close
Written(old, mode, text) ==
    IF "w" \in Range(mode) THEN <<text>> ELSE old \o <<text>>

NoOutput == [stdout |-> <<>>, file |-> OldContent]

----------------------------------------------------------------------------
(* process *)

Init ==
    /\ variant \in Variants
    /\ input \in Docs \cup {NoFile}
    /\ o \in Destinations
    /\ pc = "load_data"
    /\ data = NoData
    /\ irbs = <<>>
    /\ err = "none"
    /\ out = NoOutput

LoadData ==
    /\ pc = "load_data"
    /\ IF input = NoFile
       THEN /\ pc' = "exit"
            /\ err' = "SystemExit: 1"
            /\ data' = data
       ELSE /\ pc' = "drop_nis"
            /\ err' = err
            /\ data' = input
    /\ UNCHANGED <<variant, input, o, irbs, out>>

DropNis ==
    /\ pc = "drop_nis"
    /\ data' = drop_nis(variant, data)
    /\ pc' = "deduce"
    /\ UNCHANGED <<variant, input, o, irbs, err, out>>

\* the loop raises on the first unparsable string it visits, which may be any
\* of them; otherwise it visits the parsed strings in some order
Deduce ==
    /\ pc = "deduce"
    /\ IF Unparsable(variant, interfs(data)) # {}
       THEN \E x \in Unparsable(variant, interfs(data)) :
                /\ irbs' = irbs
                /\ pc' = "error"
                /\ err' = ParseError(x)
       ELSE \E ord \in Orders(Parsed(variant, interfs(data))) :
                /\ irbs' = deduce_in_use_interfaces(ord)
                /\ pc' = "remove_bfd_interfaces"
                /\ err' = err
    /\ UNCHANGED <<variant, input, o, data, out>>

RemoveBfdInterfaces ==
    /\ pc = "remove_bfd_interfaces"
    /\ data' = remove_bfd_interfaces(irbs, data)
    /\ pc' = "remove_interfaces"
    /\ UNCHANGED <<variant, input, o, irbs, err, out>>

RemoveInterfaces ==
    /\ pc = "remove_interfaces"
    /\ data' = remove_interfaces(variant, irbs, data)
    /\ pc' = "finish"
    /\ UNCHANGED <<variant, input, o, irbs, err, out>>

Finish ==
    /\ pc = "finish"
    /\ IF o # None
       THEN IF ModeAccepted(open_mode(variant))
            THEN /\ out' = [out EXCEPT !.file = Written(@, open_mode(variant), Dump(data))]
                 /\ pc' = "done"
                 /\ err' = err
            ELSE /\ out' = out
                 /\ pc' = "error"
                 /\ err' = ModeValueError
       ELSE /\ out' = [out EXCEPT !.stdout = Append(@, Dump(data))]
            /\ pc' = "done"
            /\ err' = err
    /\ UNCHANGED <<variant, input, o, data, irbs>>

Next ==
    \/ LoadData
    \/ DropNis
    \/ Deduce
    \/ RemoveBfdInterfaces
    \/ RemoveInterfaces
    \/ Finish

Spec == Init /\ [][Next]_vars

----------------------------------------------------------------------------
(* Vocabulary of the properties *)

NiKey == "network-instance"

Count(seq, x) == Cardinality({i \in DOMAIN seq : seq[i] = x})

\* the same elements, each as often, in any order
SameBag(s, t) ==
    /\ Len(s) = Len(t)
    /\ \A i \in DOMAIN s : Count(s, s[i]) = Count(t, s[i])

\* a network-instance name holds one of the configured substrings
NameKept(v, name) ==
    \E j \in DOMAIN keep_nis(v) : Contains(name, keep_nis(v)[j])

\* "<name>.<unit>": exactly one separator
OneSeparator(s) == Len(Split(s, ".")) = 2

\* the in-use collections the usage deduction may return on document d
InUseCollections(v, d) ==
    {deduce_in_use_interfaces(ord) : ord \in Orders(Parsed(v, interfs(d)))}

\* the documents the four pruning steps may end in on document d
PipelineResults(v, d) ==
    LET d1 == drop_nis(v, d)
    IN  {remove_interfaces(v, in_use, remove_bfd_interfaces(in_use, d1)) :
            in_use \in InUseCollections(v, d1)}

\* the in-use lists the other iteration orders of this run's set give: the
\* list is built element by element, so they are the reorderings of irbs
Reorderings(seq) ==
    {[i \in DOMAIN seq |-> seq[p[i]]] : p \in Orders(DOMAIN seq)}

\* the documents this run ends in under the other iteration orders: the two
\* pruning steps on the document as drop_nis left it
IterationResults ==
    LET d1 == [input EXCEPT ![NiKey] = data[NiKey]]
    IN  {remove_interfaces(variant, in_use, remove_bfd_interfaces(in_use, d1)) :
            in_use \in Reorderings(irbs)}

Pruned == pc \in {"finish", "done"}

----------------------------------------------------------------------------
(* C1: drop_nis leaves exactly the input network-instances whose name holds
   a configured substring, in their input order, each once. *)
C1_DropNisExact ==
    pc = "deduce" =>
        data[NiKey] = SelectSeq(input[NiKey], LAMBDA e : NameKept(variant, e.name))

(* C2: remove_bfd_interfaces leaves exactly the input bindings whose id is the
   config_rep of an in-use member, in their input order, none more often than
   in the input. *)
C2_BfdSubsequence ==
    pc = "remove_interfaces" =>
        data.bfd.subinterface =
            SelectSeq(input.bfd.subinterface,
                      LAMBDA e : \E k \in DOMAIN irbs : e.id = config_rep(irbs[k]))

\* the (reference, input record) pairs of one name, and the record each yields
StrictPairs ==
    {p \in (DOMAIN irbs) \X (DOMAIN input.interface) :
        irbs[p[1]].interface_name = input.interface[p[2]].name}

StrictRecord(p) ==
    LET e == input.interface[p[2]]
    IN  [name |-> e.name, description |-> e.description,
         subinterface |-> SelectSeq(e.subinterface,
                                    LAMBDA s : s.index = irbs[p[1]].unit)]

(* C3: strict pruning: the output holds, for every in-use reference and every
   same-name input record, one record that is the input record with its
   subinterfaces cut to the reference's unit, and nothing else; so the indices
   of an output record are indices of a same-name input record that are in-use
   units of that name. *)
C3_StrictPerReference ==
    (pc = "finish" /\ variant = "main") =>
        LET res == data.interface
        IN  /\ Len(res) = Cardinality(StrictPairs)
            /\ \A rec \in Range(res) \cup {StrictRecord(p) : p \in StrictPairs} :
                    Count(res, rec) = Cardinality({p \in StrictPairs : StrictRecord(p) = rec})
            /\ \A j \in DOMAIN res :
                    \E i \in DOMAIN input.interface :
                        /\ input.interface[i].name = res[j].name
                        /\ {s.index : s \in Range(res[j].subinterface)} \subseteq
                             {s.index : s \in Range(input.interface[i].subinterface)}
                               \cap {irbs[k].unit : k \in
                                       {k \in DOMAIN irbs : irbs[k].interface_name = res[j].name}}

\* two references to one record with different units, each with its own record
C3_Witness ==
    /\ pc = "finish" /\ variant = "main"
    /\ \E j1, j2 \in DOMAIN data.interface :
        /\ j1 # j2
        /\ data.interface[j1].name = data.interface[j2].name
        /\ data.interface[j1].subinterface # <<>>
        /\ data.interface[j2].subinterface # <<>>
        /\ data.interface[j1].subinterface # data.interface[j2].subinterface

(* C4: consolidating pruning: a record named n is in the output iff n holds
   "ethernet" or is named by an in-use reference, and its subinterfaces are
   exactly those of the input records named n whose index is an in-use unit
   of n: none from a record of another name, none lost. *)
C4_Consolidating ==
    (Pruned /\ variant = "config_filter") =>
        LET ifs == input.interface
            res == data.interface
            units(n) == {irbs[k].unit : k \in {k \in DOMAIN irbs : irbs[k].interface_name = n}}
        IN  /\ {res[j].name : j \in DOMAIN res} =
                 {ifs[i].name : i \in {i \in DOMAIN ifs :
                      Contains(ifs[i].name, S_ethernet) \/ units(ifs[i].name) # {}}}
            /\ \A j \in DOMAIN res :
                 Range(res[j].subinterface) =
                    UNION {{s \in Range(ifs[i].subinterface) : s.index \in units(res[j].name)} :
                             i \in {i \in DOMAIN ifs : ifs[i].name = res[j].name}}

(* C5: the pruning steps leave every top-level key other than
   network-instance, interface and bfd with its input value, and add or remove
   no top-level key. *)
C5_PassThrough ==
    Pruned =>
        /\ DOMAIN data = DOMAIN input
        /\ \A k \in DOMAIN input \ {NiKey, "interface", "bfd"} : data[k] = input[k]

\* a run that pruned all three sections of a document holding a further key
C5_Witness ==
    /\ Pruned
    /\ "system" \in DOMAIN input
    /\ data[NiKey] # input[NiKey]
    /\ data.interface # input.interface
    /\ data.bfd # input.bfd

(* C6: the pipeline run on its own output yields that output again. *)
C6_Idempotent ==
    Pruned => data \in PipelineResults(variant, data)

(* C7: parsing a "<name>.<unit>" string with one separator and a unit of
   decimal digits, then config_rep, gives the string back. *)
C7_RoundTrip ==
    pc = "remove_bfd_interfaces" =>
        \A s \in Parsed(variant, interfs(data)) :
            (OneSeparator(s) /\ IsDigits(Split(s, ".")[2])) =>
                config_rep(new_interface_from_string(s)) = s

(* C8: usage deduction returns an in-use collection only if every collected
   string has exactly one separator and an integer unit. *)
C8_MalformedFatal ==
    pc \in {"remove_bfd_interfaces", "remove_interfaces", "finish", "done"} =>
        \A s \in interfs(data) :
            OneSeparator(s) /\ IsIntLiteral(Split(s, ".")[2])

(* C9: finish never raises: with a destination it replaces the destination's
   content by the two-space-indented document, without one it writes that to
   standard output. *)
C9_FinishWrites ==
    /\ err # ModeValueError
    /\ pc = "done" =>
         IF o # None
         THEN out = [stdout |-> <<>>, file |-> <<Dump(data)>>]
         ELSE out = [stdout |-> <<Dump(data)>>, file |-> OldContent]

====
